---- MODULE Spec2Model ----
(***************************************************************************)
(* CreateCodeGenerator (codegen/code_generator_factory.h): the factory     *)
(* that asks ExprVisitor::create for a backend tag and constructs the      *)
(* matching CodeGenerator behind the caller's shared_ptr.                  *)
(*                                                                         *)
(* The state is what a caller of the factory can observe: its arguments,   *)
(* its output handle, the status returned, the generator objects alive on  *)
(* the heap, and a log of what the most recent call did.                   *)
(***************************************************************************)
EXTENDS Naturals, Sequences, FiniteSets, TLC

\* Longest expression batch and longest return-type sequence explored.
MaxLen == 2

(***************************************************************************)
(* Values                                                                  *)
(***************************************************************************)

\* An empty std::shared_ptr<CodeGenerator>.
NULL == "nullptr"

\* Heap addresses.  Three are enough: while make_shared runs, the object
\* still held by *out and the object held by the caller's saved copy are
\* both alive, so the new object needs a third address.
Addrs == {"g1", "g2", "g3"}

\* Two distinct arrow::Schema objects a caller may hold.
Schemas == {"schema_ab", "schema_xy"}

\* arrow::Field objects; only the number of return types matters here.
Fields == {"field"}

\* Function names an expression root may carry.
Ops == {"add", "scalar_fn", "custom_udf", "undefined_function"}

SeqsUpTo(S, n) == UNION {[1..k -> S] : k \in 0..n}

\* std::vector<std::shared_ptr<gandiva::Expression>>, empty vector included:
\* the factory accepts any vector.
AnyBatches == SeqsUpTo(Ops, MaxLen)

\* The non-empty batches, the only ones the classifier is specified for.
Batches == AnyBatches \ {<<>>}

\* std::vector<std::shared_ptr<arrow::Field>>
RetTypeSeqs == SeqsUpTo(Fields, MaxLen)

\* arrow::Status values.
StatusOK == [code |-> "OK", msg |-> ""]

TypeError(msg) == [code |-> "TypeError", msg |-> msg]

Invalid(msg) == [code |-> "Invalid", msg |-> msg]

ok(s) == s.code = "OK"

\* The backend tags the switch names, and one value that is none of them
\* (it stands for every other int, an indeterminate one included).
ARROW_COMPUTE == "ARROW_COMPUTE"

GANDIVA == "GANDIVA"

COMPUTE_EXT == "COMPUTE_EXT"

UNCLASSIFIED == "UNCLASSIFIED"

BackendTags == {ARROW_COMPUTE, GANDIVA, COMPUTE_EXT}

TagValues == BackendTags \cup {UNCLASSIFIED}

\* The statuses ExprVisitor::create may hand back.
ClsStatuses == {StatusOK, Invalid("visit failed")}

(***************************************************************************)
(* State                                                                   *)
(***************************************************************************)
VARIABLES
    schema,     \* the caller's schema (shared, read-only to the factory)
    fields,     \* the caller's return-type sequence
    batch,      \* the expression batch the caller passed to the latest call
    out,        \* the caller's std::shared_ptr<CodeGenerator> behind `out`
    status,     \* the arrow::Status the latest call returned
    heap,       \* live generator objects: address -> generator
    saved,      \* the caller's copy of an earlier call's inputs and results
    codegen,    \* what nodeVisitor.create gave the latest call
    built,      \* generators the latest call constructed, in order
    consulted,  \* how often the latest call asked the classifier
    pc          \* the caller's position

vars == <<schema, fields, batch, out, status, heap, saved, codegen, built,
          consulted, pc>>

\* The empty heap.
NoHeap == [a \in {} |-> a]

\* The caller has saved nothing yet.
NoSave == [valid |-> FALSE, handle |-> NULL, status |-> StatusOK,
           batch |-> <<>>, kind |-> NULL]

(***************************************************************************)
(* The collaborators the factory uses                                      *)
(***************************************************************************)

\* The three concrete generators, each as the record of the constructor call
\* the factory makes: the class constructed and the arguments handed to it.
ArrowComputeCodeGenerator(schema_ptr, exprs_vector, ret_types) ==
    [kind |-> "ArrowComputeCodeGenerator", schema_ptr |-> schema_ptr,
     exprs_vector |-> exprs_vector, ret_types |-> ret_types]

GandivaCodeGenerator(schema_ptr, exprs_vector, ret_types) ==
    [kind |-> "GandivaCodeGenerator", schema_ptr |-> schema_ptr,
     exprs_vector |-> exprs_vector, ret_types |-> ret_types]

ComputeExtCodeGenerator(schema_ptr, exprs_vector, ret_types) ==
    [kind |-> "ComputeExtCodeGenerator", schema_ptr |-> schema_ptr,
     exprs_vector |-> exprs_vector, ret_types |-> ret_types]

\* The registries of the three backends.  "add" is a native kernel that the
\* JIT language expresses too; "scalar_fn" is known to the JIT language and
\* to the extended registry; "custom_udf" only to the extended registry;
\* "undefined_function" to none.
NativeOps == {"add"}

JitOps == {"add", "scalar_fn"}

ExtOps == {"scalar_fn", "custom_udf"}

Covers(registry, exprs_vector) ==
    \A i \in 1..Len(exprs_vector) : exprs_vector[i] \in registry

\* ExprVisitor::create: one tag for the whole batch, the first backend in
\* the order native > JIT > extended whose registry covers every expression;
\* a TypeError-kind failure, and a tag that is none of the three, when no
\* backend covers the batch.
ExprVisitor_create(exprs_vector) ==
    IF Covers(NativeOps, exprs_vector)
    THEN [status |-> StatusOK, tag |-> ARROW_COMPUTE]
    ELSE IF Covers(JitOps, exprs_vector)
    THEN [status |-> StatusOK, tag |-> GANDIVA]
    ELSE IF Covers(ExtOps, exprs_vector)
    THEN [status |-> StatusOK, tag |-> COMPUTE_EXT]
    ELSE [status |-> TypeError("no backend"), tag |-> UNCLASSIFIED]

(***************************************************************************)
(* shared_ptr bookkeeping                                                  *)
(***************************************************************************)

\* Objects no handle in `keep` refers to are destroyed.
Release(h, keep) == [a \in (DOMAIN h) \cap keep |-> h[a]]

\* *out = std::make_shared<G>(...): the object is allocated while the old
\* target of *out is still alive, then *out is re-pointed and the old target
\* is destroyed unless the caller's saved copy still refers to it.
Store(m, gen) ==
    LET a == CHOOSE x \in Addrs : x \notin DOMAIN m.heap
        h == [x \in (DOMAIN m.heap) \cup {a} |->
                 IF x = a THEN gen ELSE m.heap[x]]
    IN  [out |-> a,
         heap |-> Release(h, {a, saved.handle}),
         built |-> Append(m.built, [addr |-> a, kind |-> gen.kind])]

\* *out = nullptr
StoreNull(m) ==
    [out |-> NULL, heap |-> Release(m.heap, {saved.handle}),
     built |-> m.built]

(***************************************************************************)
(* Variants of CreateCodeGenerator, each with one slip in the switch.      *)
(***************************************************************************)

\* The values a call leaves behind, packed.
Returned(m, st, cls) ==
    [out |-> m.out, heap |-> m.heap, built |-> m.built,
     status |-> st, consulted |-> 1, codegen |-> cls]

\* The status the switch leaves in `status`.
SwitchStatus(cls) ==
    IF cls.tag \in BackendTags
    THEN cls.status
    ELSE TypeError("Unrecognized expression type.")

\* The switch, with the generator each case constructs given.
Switch(m0, tag, arrow, gdv, ext) ==
    CASE tag = ARROW_COMPUTE -> Store(m0, arrow)
      [] tag = GANDIVA -> Store(m0, gdv)
      [] tag = COMPUTE_EXT -> Store(m0, ext)
      [] OTHER -> StoreNull(m0)

\* The break after the ARROW_COMPUTE case is missing.
CreateCodeGenerator_Fallthrough(schema_ptr, exprs_vector, ret_types, cls) ==
    LET m0 == [out |-> out, heap |-> heap, built |-> <<>>]
        a == ArrowComputeCodeGenerator(schema_ptr, exprs_vector, ret_types)
        g == GandivaCodeGenerator(schema_ptr, exprs_vector, ret_types)
        c == ComputeExtCodeGenerator(schema_ptr, exprs_vector, ret_types)
        m1 == IF cls.tag = ARROW_COMPUTE
              THEN Store(Store(m0, a), g)
              ELSE Switch(m0, cls.tag, a, g, c)
    IN  Returned(m1, SwitchStatus(cls), cls)

\* The default branch does not replace the status.
CreateCodeGenerator_KeepStatus(schema_ptr, exprs_vector, ret_types, cls) ==
    LET m0 == [out |-> out, heap |-> heap, built |-> <<>>]
        a == ArrowComputeCodeGenerator(schema_ptr, exprs_vector, ret_types)
        g == GandivaCodeGenerator(schema_ptr, exprs_vector, ret_types)
        c == ComputeExtCodeGenerator(schema_ptr, exprs_vector, ret_types)
    IN  Returned(Switch(m0, cls.tag, a, g, c), cls.status, cls)

\* The default branch does not assign *out.
CreateCodeGenerator_NoNull(schema_ptr, exprs_vector, ret_types, cls) ==
    LET m0 == [out |-> out, heap |-> heap, built |-> <<>>]
        a == ArrowComputeCodeGenerator(schema_ptr, exprs_vector, ret_types)
        g == GandivaCodeGenerator(schema_ptr, exprs_vector, ret_types)
        c == ComputeExtCodeGenerator(schema_ptr, exprs_vector, ret_types)
        m1 == IF cls.tag \in BackendTags
              THEN Switch(m0, cls.tag, a, g, c)
              ELSE m0
    IN  Returned(m1, SwitchStatus(cls), cls)

\* The return types are cut to the number of expressions.
CreateCodeGenerator_Truncate(schema_ptr, exprs_vector, ret_types, cls) ==
    LET m0 == [out |-> out, heap |-> heap, built |-> <<>>]
        n == IF Len(ret_types) < Len(exprs_vector)
             THEN Len(ret_types) ELSE Len(exprs_vector)
        r == SubSeq(ret_types, 1, n)
        a == ArrowComputeCodeGenerator(schema_ptr, exprs_vector, r)
        g == GandivaCodeGenerator(schema_ptr, exprs_vector, r)
        c == ComputeExtCodeGenerator(schema_ptr, exprs_vector, r)
    IN  Returned(Switch(m0, cls.tag, a, g, c), SwitchStatus(cls), cls)

\* A generator *out already points to is re-initialised in place instead of
\* a new one being allocated.
CreateCodeGenerator_Rebind(schema_ptr, exprs_vector, ret_types, cls) ==
    LET m0 == [out |-> out, heap |-> heap, built |-> <<>>]
        a == ArrowComputeCodeGenerator(schema_ptr, exprs_vector, ret_types)
        g == GandivaCodeGenerator(schema_ptr, exprs_vector, ret_types)
        c == ComputeExtCodeGenerator(schema_ptr, exprs_vector, ret_types)
        gen == CASE cls.tag = ARROW_COMPUTE -> a
                 [] cls.tag = GANDIVA -> g
                 [] OTHER -> c
        m1 == IF cls.tag \in BackendTags /\ out # NULL
              THEN [out |-> out,
                    heap |-> [x \in DOMAIN heap |->
                                 IF x = out THEN gen ELSE heap[x]],
                    built |-> <<[addr |-> out, kind |-> gen.kind]>>]
              ELSE Switch(m0, cls.tag, a, g, c)
    IN  Returned(m1, SwitchStatus(cls), cls)

\* A generator of the wanted kind that *out already points to is kept.
CreateCodeGenerator_Cached(schema_ptr, exprs_vector, ret_types, cls) ==
    LET m0 == [out |-> out, heap |-> heap, built |-> <<>>]
        a == ArrowComputeCodeGenerator(schema_ptr, exprs_vector, ret_types)
        g == GandivaCodeGenerator(schema_ptr, exprs_vector, ret_types)
        c == ComputeExtCodeGenerator(schema_ptr, exprs_vector, ret_types)
        gen == CASE cls.tag = ARROW_COMPUTE -> a
                 [] cls.tag = GANDIVA -> g
                 [] OTHER -> c
        m1 == IF /\ cls.tag \in BackendTags
                 /\ out # NULL
                 /\ heap[out] = gen
              THEN m0
              ELSE Switch(m0, cls.tag, a, g, c)
    IN  Returned(m1, SwitchStatus(cls), cls)

\* The ARROW_COMPUTE and GANDIVA cases construct each other's generator.
CreateCodeGenerator_Swapped(schema_ptr, exprs_vector, ret_types, cls) ==
    LET m0 == [out |-> out, heap |-> heap, built |-> <<>>]
        a == ArrowComputeCodeGenerator(schema_ptr, exprs_vector, ret_types)
        g == GandivaCodeGenerator(schema_ptr, exprs_vector, ret_types)
        c == ComputeExtCodeGenerator(schema_ptr, exprs_vector, ret_types)
    IN  Returned(Switch(m0, cls.tag, g, a, c), SwitchStatus(cls), cls)

\* Each generator is handed only the expressions no earlier backend in the
\* precedence order could take: the batch is split.
CreateCodeGenerator_Split(schema_ptr, exprs_vector, ret_types, cls) ==
    LET m0 == [out |-> out, heap |-> heap, built |-> <<>>]
        NotNative(e) == e \notin NativeOps
        NotJit(e) == e \notin JitOps
        a == ArrowComputeCodeGenerator(schema_ptr, exprs_vector, ret_types)
        g == GandivaCodeGenerator(
                 schema_ptr, SelectSeq(exprs_vector, NotNative), ret_types)
        c == ComputeExtCodeGenerator(
                 schema_ptr, SelectSeq(exprs_vector, NotJit), ret_types)
    IN  Returned(Switch(m0, cls.tag, a, g, c), SwitchStatus(cls), cls)

(***************************************************************************)
(* CreateCodeGenerator                                                     *)
(***************************************************************************)

\* The call's whole effect, as a record of the values it leaves behind.
\* cls is what nodeVisitor.create returned: its status and the value found
\* in codegen_type afterwards.
CreateCodeGenerator(schema_ptr, exprs_vector, ret_types, cls) ==
    LET m0 == [out |-> out, heap |-> heap, built |-> <<>>]
        codegen_type == cls.tag
        m1 == CASE codegen_type = ARROW_COMPUTE ->
                     Store(m0, ArrowComputeCodeGenerator(
                                   schema_ptr, exprs_vector, ret_types))
                [] codegen_type = GANDIVA ->
                     Store(m0, GandivaCodeGenerator(
                                   schema_ptr, exprs_vector, ret_types))
                [] codegen_type = COMPUTE_EXT ->
                     Store(m0, ComputeExtCodeGenerator(
                                   schema_ptr, exprs_vector, ret_types))
                [] OTHER -> StoreNull(m0)
        st == IF codegen_type \in BackendTags
              THEN cls.status
              ELSE TypeError("Unrecognized expression type.")
    IN  [out |-> m1.out, heap |-> m1.heap, built |-> m1.built,
         status |-> st, consulted |-> 1, codegen |-> cls]

(***************************************************************************)
(* The caller                                                              *)
(***************************************************************************)
Init ==
    /\ schema \in Schemas
    /\ fields \in RetTypeSeqs
    /\ batch = <<>>
    /\ out = NULL
    /\ status = StatusOK
    /\ heap = NoHeap
    /\ saved = NoSave
    /\ codegen = [status |-> StatusOK, tag |-> UNCLASSIFIED]
    /\ built = <<>>
    /\ consulted = 0
    /\ pc = "start"

\* The caller passes (schema, e, fields) and its handle to the factory.
CallWith(e, cls) ==
    \E r \in {CreateCodeGenerator(schema, e, fields, cls)} :
        /\ batch' = e
        /\ out' = r.out
        /\ heap' = r.heap
        /\ status' = r.status
        /\ built' = r.built
        /\ consulted' = r.consulted
        /\ codegen' = r.codegen
        /\ pc' = "returned"
        /\ UNCHANGED <<schema, fields, saved>>

\* A call in which the classifier may answer anything: any status, and any
\* value in codegen_type (written by it, or left indeterminate).
CallAny ==
    \E e \in AnyBatches, s \in ClsStatuses, t \in TagValues :
        CallWith(e, [status |-> s, tag |-> t])

\* A call in which the classifier answers as specified.
CallClassified ==
    \E e \in Batches : CallWith(e, ExprVisitor_create(e))

\* The caller copies the handle it got (a second shared_ptr to the same
\* object) and notes the call's inputs and status; an older copy is dropped.
Save ==
    /\ pc = "returned"
    /\ saved' = [valid |-> TRUE, handle |-> out, status |-> status,
                 batch |-> batch,
                 kind |-> IF out = NULL THEN NULL ELSE heap[out].kind]
    /\ heap' = Release(heap, {out})
    /\ pc' = "saved"
    /\ UNCHANGED <<schema, fields, batch, out, status, codegen, built,
                   consulted>>

Next == CallAny

Spec == Init /\ [][Next]_vars

NextClassified == CallClassified \/ Save

SpecClassified == Init /\ [][NextClassified]_vars

TypeOK ==
    /\ schema \in Schemas
    /\ fields \in RetTypeSeqs
    /\ batch \in AnyBatches
    /\ out \in Addrs \cup {NULL}
    /\ DOMAIN heap \subseteq Addrs
    /\ out # NULL => out \in DOMAIN heap
    /\ saved.handle # NULL => saved.handle \in DOMAIN heap
    /\ codegen.tag \in TagValues
    /\ pc \in {"start", "returned", "saved"}

(***************************************************************************)
(* Properties                                                              *)
(***************************************************************************)

\* The kinds of the generators the latest call constructed.
Kinds(b) == [i \in 1..Len(b) |-> b[i].kind]

Unrecognized == TypeError("Unrecognized expression type.")

\* C1: whatever the classifier returns, a returned call shows either a
\* non-null handle with a success status or a null handle with a failure
\* status.
C1_HandleMatchesStatus ==
    pc = "returned" =>
        \/ out # NULL /\ ok(status)
        \/ out = NULL /\ ~ok(status)

\* C2: whenever the classifier returns a non-success status, no generator is
\* constructed, the handle is null and the status is
\* TypeError("Unrecognized expression type.").
C2_FailureGivesNullAndTypeError ==
    pc = "returned" /\ ~ok(codegen.status) =>
        /\ built = <<>>
        /\ out = NULL
        /\ status = Unrecognized

\* C3: every call consults the classifier exactly once and constructs at most
\* one generator: exactly one of the matching kind for each of the three
\* tags, none for any other tag.
C3_OneGeneratorPerCall ==
    pc = "returned" =>
        /\ consulted = 1
        /\ Len(built) <= 1
        /\ codegen.tag = ARROW_COMPUTE =>
               Kinds(built) = <<"ArrowComputeCodeGenerator">>
        /\ codegen.tag = GANDIVA =>
               Kinds(built) = <<"GandivaCodeGenerator">>
        /\ codegen.tag = COMPUTE_EXT =>
               Kinds(built) = <<"ComputeExtCodeGenerator">>
        /\ codegen.tag \notin BackendTags => built = <<>>

C3_Witness ==
    /\ pc = "returned"
    /\ codegen.tag = GANDIVA
    /\ Kinds(built) = <<"GandivaCodeGenerator">>
    /\ out # NULL

\* C4: a non-empty batch whose expressions all use native vectorized kernels
\* is tagged ARROW_COMPUTE and yields a non-null handle to an
\* ArrowComputeCodeGenerator.
C4_NativeBatchGetsArrowCompute ==
    pc = "returned" /\ batch # <<>> /\ Covers(NativeOps, batch) =>
        /\ codegen.tag = ARROW_COMPUTE
        /\ out # NULL
        /\ heap[out].kind = "ArrowComputeCodeGenerator"

C4_Witness ==
    /\ pc = "returned"
    /\ Len(batch) = MaxLen
    /\ Covers(NativeOps, batch)
    /\ out # NULL
    /\ heap[out].kind = "ArrowComputeCodeGenerator"

C6_SameInputsSameOutcome ==
    pc = "returned" /\ saved.valid /\ saved.batch = batch =>
        /\ status = saved.status
        /\ (out = NULL) <=> (saved.handle = NULL)
        /\ out # NULL =>
               /\ heap[out].kind = saved.kind
               /\ out # saved.handle
        /\ saved.handle # NULL =>
               /\ heap[saved.handle].kind = saved.kind
               /\ heap[saved.handle].schema_ptr = schema
               /\ heap[saved.handle].exprs_vector = saved.batch
               /\ heap[saved.handle].ret_types = fields

C6_Witness ==
    /\ pc = "returned"
    /\ saved.valid
    /\ saved.batch = batch
    /\ saved.handle # NULL
    /\ out # NULL
    /\ out # saved.handle

\* C7 as claimed: every call that ends with a non-null handle had as many
\* expressions as return types.
C7_LengthsEqualOnSuccess ==
    pc = "returned" /\ out # NULL => Len(batch) = Len(fields)

\* C7 as amended: the lengths are not compared; the generator of a call that
\* ends with a non-null handle holds exactly the sequences passed, so its two
\* lengths are equal exactly when the caller's were.
C7_LengthsAsPassed ==
    pc = "returned" /\ out # NULL =>
        /\ Len(heap[out].exprs_vector) = Len(batch)
        /\ Len(heap[out].ret_types) = Len(fields)
        /\ (Len(heap[out].exprs_vector) = Len(heap[out].ret_types))
               <=> (Len(batch) = Len(fields))

C7_Witness ==
    /\ pc = "returned"
    /\ out # NULL
    /\ Len(batch) > Len(fields)
    /\ Len(heap[out].ret_types) = Len(fields)

\* C8: a call changes only the output handle and the heap, and the heap only
\* by the object it allocates: the caller's schema, return types and saved
\* copy stay as they were, no generator that existed before is altered, a
\* generator the caller's saved copy holds stays alive, and the generator
\* behind a non-null handle is bound to exactly the triple passed.
C8_Frame ==
    [][pc' = "returned" =>
          /\ schema' = schema
          /\ fields' = fields
          /\ saved' = saved
          /\ \A a \in DOMAIN heap :
                 a \in DOMAIN heap' => heap'[a] = heap[a]
          /\ saved.handle # NULL => saved.handle \in DOMAIN heap'
          /\ Cardinality((DOMAIN heap') \ (DOMAIN heap)) <= 1
          /\ out' # NULL =>
                 /\ heap'[out'].schema_ptr = schema
                 /\ heap'[out'].exprs_vector = batch'
                 /\ heap'[out'].ret_types = fields]_vars

\* An earlier generator is still bound to its own batch after a later call
\* built another generator for a different batch.
C8_Witness ==
    /\ pc = "returned"
    /\ saved.handle # NULL
    /\ out # NULL
    /\ out # saved.handle
    /\ saved.batch # batch
    /\ heap[saved.handle].exprs_vector = saved.batch
    /\ heap[out].exprs_vector = batch

\* C9: the returned status is the classifier's own, unchanged, when the tag
\* is one of the three, and TypeError("Unrecognized expression type.") when
\* it is not, whatever the classifier's status was.
C9_StatusPassThrough ==
    pc = "returned" =>
        /\ codegen.tag \in BackendTags => status = codegen.status
        /\ codegen.tag \notin BackendTags => status = Unrecognized

\* A classifier failure that comes with one of the three tags is returned
\* as it is, next to a generator.
C9_Witness ==
    /\ pc = "returned"
    /\ codegen.tag \in BackendTags
    /\ ~ok(codegen.status)
    /\ status = codegen.status
    /\ status # Unrecognized

\* C10: every path assigns the handle: after a call it is null when the tag
\* is none of the three, and otherwise the object this very call built; it
\* is never what an earlier call left there.
C10_HandleIsLatest ==
    pc = "returned" =>
        IF codegen.tag \in BackendTags
        THEN /\ built # <<>>
             /\ out = built[Len(built)].addr
             /\ out \in DOMAIN heap
        ELSE out = NULL

\* The handle held a generator (the caller saved a copy of it) and a later
\* call that failed left it null.
C10_Witness ==
    /\ pc = "returned"
    /\ saved.handle # NULL
    /\ codegen.tag \notin BackendTags
    /\ out = NULL
    /\ ~ok(status)
====
